---- MODULE Spec2Model ----
(***************************************************************************)
(* Model of the Gitlab plugin (src/plugin.py, src/config.py): the webhook  *)
(* service GitlabWebHookService.doPost, the event handler                  *)
(* GitlabHandler.handle_payload with its hooks, the per-channel project    *)
(* registry and the per-channel message formats.                           *)
(*                                                                         *)
(* A Python str is a tuple of tokens (each token a piece of text), so that *)
(* split, slicing, concatenation, equality and `in` are computed.          *)
(***************************************************************************)
EXTENDS Integers, Sequences, FiniteSets, TLC

\* ------------------------------------------------------------------ bounds

\* Largest number of commits in a push payload.
MaxCommits == 2

\* Largest number of project subscriptions held by the registry, all channels together.
MaxProjects == 2

\* Largest number of channel-specific format values that differ from the default.
MaxOverrides == 1

\* ------------------------------------------------------- program constants

\* commit['id'][0:10]
ShortIdLen == 10

\* handler.send_response(403) / handler.send_response(200)
StatusError == 403

StatusOk == 200

\* ------------------------------------------------------------ str and dict

Range(s) == {s[i] : i \in DOMAIN s}

Min(a, b) == IF a < b THEN a ELSE b

\* s[0:n]
Slice(s, n) == SubSeq(s, 1, Min(n, Len(s)))

\* sub in s, for str
Contains(s, sub) ==
    \E i \in 0..(Len(s) - Len(sub)) : SubSeq(s, i + 1, i + Len(sub)) = sub

\* s.split('/')
RECURSIVE Split(_)
Split(s) ==
    IF \A i \in DOMAIN s : s[i] # "/"
    THEN <<s>>
    ELSE LET k == CHOOSE i \in DOMAIN s : s[i] = "/" /\ \A j \in 1..(i - 1) : s[j] # "/"
         IN <<SubSeq(s, 1, k - 1)>> \o Split(SubSeq(s, k + 1, Len(s)))

\* d[k] = v on a dict
Put(d, k, v) == [x \in DOMAIN d \cup {k} |-> IF x = k THEN v ELSE d[x]]

\* d without key k
Drop(d, k) == [x \in DOMAIN d \ {k} |-> d[x]]

\* whether d[path[1]][path[2]]... raises no KeyError
RECURSIVE HasPath(_, _)
HasPath(d, path) ==
    IF path = <<>> THEN TRUE
    ELSE /\ path[1] \in DOMAIN d
         /\ HasPath(d[path[1]], Tail(path))

\* d[path[1]][path[2]]...
RECURSIVE GetPath(_, _)
GetPath(d, path) == IF path = <<>> THEN d ELSE GetPath(d[path[1]], Tail(path))

\* str() of the small integers of the payloads
Digits == <<"0", "1", "2", "3", "4", "5", "6", "7", "8", "9">>

NumStr(n) == <<Digits[n + 1]>>

\* ------------------------------------------------------------- the irc side

\* irc.network
IrcNetwork == <<"n">>

ChanC == <<"#", "c">>

ChanD == <<"#", "d">>

ChannelNames == {ChanC, ChanD}

Slugs == {<<"app">>, <<"web">>}

UrlApp == <<"https://git.example.com/team/app">>

UrlApp2 == UrlApp \o <<"2">>

Urls == {UrlApp, UrlApp2}

\* ------------------------------------------------------------ the formats

\* A format is a str: a tuple of pieces of text and of replacement fields.
\* The replacement fields of the formats, and the keys each one looks up.
Fields ==
    ("{project[name]}" :> <<"project", "name">>) @@
    ("{user_name}" :> <<"user_name">>) @@
    ("{total_commits_count}" :> <<"total_commits_count">>) @@
    ("{ref}" :> <<"ref">>) @@
    ("{short_id}" :> <<"short_id">>) @@
    ("{message}" :> <<"message">>) @@
    ("{author[name]}" :> <<"author", "name">>) @@
    ("{nosuch}" :> <<"nosuch">>)

\* config.py: format.push
DefaultPush ==
    << "\\x02[", "{project[name]}", "]\\x02 ", "{user_name}", " pushed \\x02",
       "{total_commits_count}", " commit(s)\\x02 to \\x02", "{ref}", "\\x02:" >>

\* config.py: format.commit
DefaultCommit ==
    << "\\x02[", "{project[name]}", "]\\x02 ", "{short_id}", " \\x02", "{message}",
       "\\x02 by ", "{author[name]}" >>

\* a channel value that names a field no payload has
UnknownField == <<"[", "{nosuch}", "]">>

Defaults == [push |-> DefaultPush, commit |-> DefaultCommit]

FormatIds == {"push", "commit"}

\* the formats a channel value is set to
CustomFormats == {UnknownField}

\* ------------------------------------------------------------ the requests

EventHeader == "X-Gitlab-Event"

\* plugin.py line 67
SupportedEvents ==
    {"Push Hook", "Tag Push Hook", "Note Hook", "Issue Hook", "Merge Request Hook"}

\* plugin.py line 76
HomepageEvents == {"Push Hook", "Tag Push Hook", "Note Hook"}

\* plugin.py line 79
UrlEvents == {"Issue Hook", "Merge Request Hook"}

OtherHeaders == ("Content-Type" :> "application/json")

HeaderSets ==
    {OtherHeaders} \cup
    {(EventHeader :> e) @@ OtherHeaders : e \in SupportedEvents \cup {"System Hook"}}

\* the request paths: /n, n/c, /n/c, /n/d, /o/c, /n/c/x
MainPath == <<"/", "n", "/", "c">>

Paths ==
    { <<"/", "n">>, <<"n", "/", "c">>, MainPath, <<"/", "n", "/", "d">>,
      <<"/", "o", "/", "c">>, <<"/", "n", "/", "c", "/", "x">> }

\* the i-th commit of a push: its id has 10 + i characters
CommitId(i) == [j \in 1..(ShortIdLen + i) |-> Digits[((i * j) % 10) + 1]]

Commit(i) ==
    [ id |-> CommitId(i),
      message |-> <<"fix ", Digits[i + 1]>>,
      author |-> [name |-> <<"bob">>] ]

\* a commit whose id is shorter than ShortIdLen
ShortCommit ==
    [ id |-> <<"a", "b", "c">>, message |-> <<"tiny">>, author |-> [name |-> <<"eve">>] ]

\* a Push Hook body with n commits
Push(homepage, n) ==
    [ repository |-> [homepage |-> homepage],
      project_id |-> 7,
      user_name |-> <<"alice">>,
      ref |-> <<"main">>,
      total_commits_count |-> n,
      commits |-> [i \in 1..n |-> Commit(i)] ]

\* an Issue Hook / Merge Request Hook body
Issue(url) ==
    [ object_attributes |-> [id |-> 42, url |-> url],
      user |-> [name |-> <<"alice">>] ]

IssuePath == <<"/issues/42">>

Body(p) == [text |-> "json", value |-> p]

\* the body of a request that is no JSON document
Garbage == [text |-> "garbage"]

\* push bodies: well-formed ones, and ones lacking a field _push_hook reads
PushPayloads ==
    {Push(UrlApp, n) : n \in 0..MaxCommits} \cup
    { Push(UrlApp2, 1),
      [Push(UrlApp, 1) EXCEPT !.commits = <<ShortCommit>>],
      Drop(Push(UrlApp, 1), "project_id"),
      Drop(Push(UrlApp, 1), "commits"),
      [Push(UrlApp, 2) EXCEPT !.commits[1] = Drop(@, "author")] }

\* bodies without the field the subscriptions are compared with
BarePayloads ==
    { <<>>,
      [Push(UrlApp, 1) EXCEPT !.repository = [name |-> <<"app">>]],
      [Issue(UrlApp) EXCEPT !.object_attributes = [id |-> 42]] }

IssuePayloads ==
    { Put(Issue(UrlApp \o IssuePath), "repository", [homepage |-> UrlApp2]),
      Issue(UrlApp2 \o IssuePath),
      Issue(<<"https://git.example.com/team/other">> \o IssuePath) }

Payloads == PushPayloads \cup BarePayloads \cup IssuePayloads

Forms == {Garbage} \cup {Body(p) : p \in Payloads}

\* a decoder that yields an empty object for text that is no JSON
JSONDecode_Lenient(form) ==
    [ok |-> TRUE, value |-> IF form.text = "json" THEN form.value ELSE <<>>]

\* json.JSONDecoder().decode(form.decode('utf-8'))
JSONDecode(form) ==
    IF form.text = "json" THEN [ok |-> TRUE, value |-> form.value] ELSE [ok |-> FALSE]

\* the bodies sent with a header set: every body with Push Hook, and with the
\* other header sets the bodies that differ in what their events read
FormsFor(h) ==
    IF EventHeader \in DOMAIN h /\ h[EventHeader] = "Push Hook" THEN Forms
    ELSE {Garbage} \cup
         {Body(p) : p \in {Push(UrlApp, 1), Push(UrlApp2, 1)} \cup BarePayloads \cup IssuePayloads}

\* the requests the model sends: on MainPath every header set with its bodies,
\* on the other paths a push that would produce messages and a body that is no JSON
Requests ==
    { [path |-> MainPath, headers |-> hf[1], form |-> hf[2]] :
        hf \in {x \in HeaderSets \X Forms : x[2] \in FormsFor(x[1])} }
    \cup
    { [path |-> p, headers |-> h, form |-> f] :
        p \in Paths,
        h \in {OtherHeaders, (EventHeader :> "Push Hook") @@ OtherHeaders},
        f \in {Garbage, Body(Push(UrlApp, 1))} }

\* --------------------------------------------------------------- the state

VARIABLES
    channels,   \* irc.state.channels: the joined channels, in join order
    projects,   \* registry value 'projects' of each channel: <<>> is the empty
                \* string, <<d>> the JSON text of the dict d (a sequence of <<slug, url>>)
    format,     \* the channel values of 'format.push' and 'format.commit' that are
                \* set: a dict from "push" and "commit" to a format, per channel
    queue,      \* the messages irc.queueMsg has queued and the driver has not taken
    phase,      \* "idle": no request; "handled": doPost has returned;
                \* "replied": a command has replied
    req,        \* the request doPost handled
    resp,       \* what doPost wrote to the handler: the responses in order
    calls,      \* the decode, handle_payload and hook calls doPost made, in order
    command,    \* the gitlab project command that has replied
    replies,    \* what the command sent back through irc, in order
    threads     \* the command threads of the plugin (threaded = True): where each
                \* one is, its arguments and its local variable `projects`

vars == <<channels, projects, format, queue, phase, req, resp, calls,
          command, replies, threads>>

NoRequest == [path |-> <<>>, headers |-> <<>>, form |-> Garbage]

NoCommand == [name |-> "none"]

\* the threads that run commands at the same time
Threads == {1, 2}

NoThread == [pc |-> "none"]

\* ------------------------------------------------------------ the registry

\* Gitlab._load_projects: the dict of a channel, a sequence of <<slug, url>>
_load_projects(channel) ==
    IF Len(projects[channel]) = 0 THEN <<>> ELSE projects[channel][1]

\* json.dumps(projects), the value Gitlab._save_projects stores
DumpProjects(d) == <<d>>

\* slug in projects
HasSlug(d, slug) == \E i \in DOMAIN d : d[i][1] = slug

\* projects[slug] = url, for a slug the dict does not hold
SetSlug(d, slug, url) == Append(d, <<slug, url>>)

\* del projects[slug]
DelSlug(d, slug) == SelectSeq(d, LAMBDA item : item[1] # slug)

\* self.plugin.registryValue('format.' + id, channel): the channel's value, or
\* the default registered in config.py
RegistryFormat(id, channel) ==
    IF id \in DOMAIN format[channel] THEN format[channel][id] ELSE Defaults[id]

\* ------------------------------------------------------------ GitlabHandler

\* format_string.format(**args) raises no KeyError
FormatOk(t, args) ==
    \A i \in DOMAIN t : t[i] \in DOMAIN Fields => HasPath(args, Fields[t[i]])

\* what format() puts in the place of one replacement field
FieldText(args, path) ==
    IF path \in {<<"total_commits_count">>, <<"project_id">>, <<"project", "id">>}
    THEN NumStr(GetPath(args, path))
    ELSE GetPath(args, path)

\* format_string.format(**args)
RECURSIVE Format(_, _)
Format(t, args) ==
    IF t = <<>> THEN <<>>
    ELSE (IF t[1] \in DOMAIN Fields THEN FieldText(args, Fields[t[1]]) ELSE <<t[1]>>)
         \o Format(Tail(t), args)

\* GitlabHandler._build_message: the message, when format() raises nothing
_build_message(channel, id, args) == Format(RegistryFormat(id, channel), args)

\* GitlabHandler._build_message raises a KeyError
BuildRaises(channel, id, args) == ~FormatOk(RegistryFormat(id, channel), args)

\* ircmsgs.privmsg(channel, msg)
Privmsg(channel, msg) == [channel |-> channel, text |-> msg]

\* the state of one handle_payload call: the payload (the hooks write to it),
\* the messages queued, the hooks called, and whether an exception left it
Run(payload) == [payload |-> payload, msgs |-> <<>>, hooks |-> <<>>, raised |-> FALSE]

Raise(st) == [st EXCEPT !.raised = TRUE]

\* GitlabHandler._send_message
_send_message(st, channel, msg) == [st EXCEPT !.msgs = Append(@, Privmsg(channel, msg))]

\* a project entry that is written once and kept when the payload has one
ProjectOf_Stale(payload, slug) ==
    IF "project" \in DOMAIN payload THEN payload.project
    ELSE [id |-> payload.project_id, name |-> slug]

\* the project entry _push_hook writes into the payload and into each commit
ProjectOf(payload, slug) == [id |-> payload.project_id, name |-> slug]

\* commit['short_id'] = commit['id'][0:10]
ShortId(commit) == Slice(commit.id, ShortIdLen)

\* GitlabHandler._push_hook, the loop over payload['commits'] from commit i on
RECURSIVE PushCommits(_, _, _, _)
PushCommits(channel, slug, st, i) ==
    IF i > Len(st.payload.commits) THEN st
    ELSE LET commit == st.payload.commits[i]
             c1 == Put(commit, "project", ProjectOf(st.payload, slug))
         IN IF "id" \notin DOMAIN commit
            THEN Raise([st EXCEPT !.payload.commits[i] = c1])
            ELSE LET c2 == Put(c1, "short_id", ShortId(commit))
                     st2 == [st EXCEPT !.payload.commits[i] = c2]
                 IN IF BuildRaises(channel, "commit", c2)
                    THEN Raise(st2)
                    ELSE PushCommits(channel, slug,
                             _send_message(st2, channel,
                                 _build_message(channel, "commit", c2)),
                             i + 1)

\* GitlabHandler._push_hook
_push_hook(channel, slug, st) ==
    IF "project_id" \notin DOMAIN st.payload THEN Raise(st)
    ELSE LET p1 == Put(st.payload, "project", ProjectOf(st.payload, slug))
             st1 == [st EXCEPT !.payload = p1]
         IN IF BuildRaises(channel, "push", p1) THEN Raise(st1)
            ELSE LET st2 == _send_message(st1, channel, _build_message(channel, "push", p1))
                 IN IF "commits" \notin DOMAIN p1 THEN Raise(st2)
                    ELSE PushCommits(channel, slug, st2, 1)

\* GitlabHandler._tag_push_hook
_tag_push_hook(channel, slug, st) == st

\* GitlabHandler._note_hook
_note_hook(channel, slug, st) == st

\* GitlabHandler._issue_hook
_issue_hook(channel, slug, st) == st

\* GitlabHandler._merge_request_hook
_merge_request_hook(channel, slug, st) == st

\* handle_payload, lines 85-95: the hook of the event type
Dispatch(event_type, channel, slug, st) ==
    LET called == [st EXCEPT !.hooks =
                       Append(@, [hook |-> event_type, channel |-> channel, slug |-> slug])]
    IN CASE event_type = "Push Hook" -> _push_hook(channel, slug, called)
         [] event_type = "Tag Push Hook" -> _tag_push_hook(channel, slug, called)
         [] event_type = "Issue Hook" -> _issue_hook(channel, slug, called)
         [] event_type = "Note Hook" -> _note_hook(channel, slug, called)
         [] event_type = "Merge Request Hook" -> _merge_request_hook(channel, slug, called)
         [] OTHER -> st

\* the url of Issue and Merge Request events compared for equality, as the
\* homepage is
NoMatch_Equal(event_type, url, payload) ==
    IF event_type \in HomepageEvents THEN url # payload.repository.homepage
    ELSE IF event_type \in UrlEvents THEN url # payload.object_attributes.url
    ELSE TRUE

\* handle_payload, lines 76-83: whether the subscription is skipped
\* (defined when the field compared exists)
NoMatch(event_type, url, payload) ==
    IF event_type \in HomepageEvents THEN url # payload.repository.homepage
    ELSE IF event_type \in UrlEvents THEN ~Contains(payload.object_attributes.url, url)
    ELSE TRUE

\* the field handle_payload compares the subscription's url with
MatchField(event_type) ==
    IF event_type \in HomepageEvents THEN <<"repository", "homepage">>
    ELSE IF event_type \in UrlEvents THEN <<"object_attributes", "url">>
    ELSE <<>>

\* handle_payload, lines 72-74: the (channel, slug, url) the two loops visit
RECURSIVE Subscriptions(_)
Subscriptions(chs) ==
    IF chs = <<>> THEN <<>>
    ELSE LET d == _load_projects(chs[1])
         IN [i \in 1..Len(d) |-> <<chs[1], d[i][1], d[i][2]>>] \o Subscriptions(Tail(chs))

\* handle_payload, lines 72-95, from the i-th subscription on
RECURSIVE RouteLoop(_, _, _, _)
RouteLoop(event_type, subs, st, i) ==
    IF i > Len(subs) \/ st.raised THEN st
    ELSE IF ~HasPath(st.payload, MatchField(event_type)) THEN Raise(st)
    ELSE IF NoMatch(event_type, subs[i][3], st.payload)
         THEN RouteLoop(event_type, subs, st, i + 1)
    ELSE RouteLoop(event_type, subs,
                   Dispatch(event_type, subs[i][1], subs[i][2], st), i + 1)

\* an unsupported event type raised as an error instead of returned from
handle_payload_Strict(headers, payload) ==
    IF EventHeader \notin DOMAIN headers THEN Run(payload)
    ELSE IF headers[EventHeader] \notin SupportedEvents THEN Raise(Run(payload))
    ELSE RouteLoop(headers[EventHeader], Subscriptions(channels), Run(payload), 1)

\* GitlabHandler.handle_payload
handle_payload(headers, payload) ==
    IF EventHeader \notin DOMAIN headers THEN Run(payload)
    ELSE IF headers[EventHeader] \notin SupportedEvents THEN Run(payload)
    ELSE RouteLoop(headers[EventHeader], Subscriptions(channels), Run(payload), 1)

\* ----------------------------------------------------- GitlabWebHookService

MsgPath == <<"Error: You need to provide the network name and the channel in url.">>

MsgJson == <<"Error: Invalid JSON data sent.">>

MsgData == <<"Error: Invalid data sent.">>

\* GitlabWebHookService._send_error: one more response written to the handler
_send_error(out, message) == Append(out, [status |-> StatusError, body |-> message])

\* GitlabWebHookService._send_ok
_send_ok(out) == Append(out, [status |-> StatusOk, body |-> <<"OK">>])

NoCalls == [decode |-> FALSE, handle_payload |-> FALSE, hooks |-> <<>>]

\* the split without the [1:]
Information_NoSlice(path) == Split(path)

\* doPost, line 171: path.split('/')[1:]
Information(path) == Tail(Split(path))

\* the two tests joined by `and`
OutOfScope_And(network, channel) ==
    IrcNetwork # network /\ channel \notin Range(channels)

\* doPost, line 180: the request is for another network or a channel not joined
OutOfScope(network, channel) ==
    IrcNetwork # network \/ channel \notin Range(channels)

\* a doPost that sends the text of the exception with the data error: for a
\* KeyError, the key that is missing
doPost_Leaky(path, headers, form) ==
    LET information == Information(path)
    IN IF Len(information) < 2
       THEN [resp |-> _send_error(<<>>, MsgPath), msgs |-> <<>>, calls |-> NoCalls]
       ELSE
       LET network == information[1]
           channel == <<"#">> \o information[2]
       IN IF OutOfScope(network, channel)
          THEN [resp |-> <<>>, msgs |-> <<>>, calls |-> NoCalls]
          ELSE
          LET dec == JSONDecode(form)
              r1 == IF dec.ok THEN <<>> ELSE _send_error(<<>>, MsgJson)
              st == IF dec.ok THEN handle_payload(headers, dec.value) ELSE Raise(Run(<<>>))
              key == IF ~dec.ok THEN "payload"
                     ELSE CHOOSE k \in {"repository", "project_id", "commits",
                                        "object_attributes", "nosuch"} :
                              k \notin DOMAIN dec.value
              r2 == IF st.raised THEN _send_error(r1, MsgData \o <<key>>) ELSE r1
          IN [ resp |-> _send_ok(r2),
               msgs |-> st.msgs,
               calls |-> [decode |-> TRUE, handle_payload |-> dec.ok, hooks |-> st.hooks] ]

\* GitlabWebHookService.doPost: the responses written, the messages queued and
\* the calls made
doPost(path, headers, form) ==
    LET information == Information(path)
    IN IF Len(information) < 2
       THEN [resp |-> _send_error(<<>>, MsgPath), msgs |-> <<>>, calls |-> NoCalls]
       ELSE
       LET network == information[1]
           channel == <<"#">> \o information[2]
       IN IF OutOfScope(network, channel)
          THEN [resp |-> <<>>, msgs |-> <<>>, calls |-> NoCalls]
          ELSE
          LET dec == JSONDecode(form)
              r1 == IF dec.ok THEN <<>> ELSE _send_error(<<>>, MsgJson)
              \* with no payload bound, the call's argument raises UnboundLocalError
              st == IF dec.ok THEN handle_payload(headers, dec.value) ELSE Raise(Run(<<>>))
              r2 == IF st.raised THEN _send_error(r1, MsgData) ELSE r1
          IN [ resp |-> _send_ok(r2),
               msgs |-> st.msgs,
               calls |-> [decode |-> TRUE, handle_payload |-> dec.ok, hooks |-> st.hooks] ]

\* ------------------------------------------------------------- the actions

Init ==
    /\ channels = <<>>
    /\ projects = [c \in ChannelNames |-> <<>>]
    /\ format = [c \in ChannelNames |-> <<>>]
    /\ queue = <<>>
    /\ phase = "idle"
    /\ req = NoRequest
    /\ resp = <<>>
    /\ calls = NoCalls
    /\ command = NoCommand
    /\ replies = <<>>
    /\ threads = [t \in Threads |-> NoThread]

\* the bot joins a channel
Join(c) ==
    /\ phase = "idle"
    /\ c \notin Range(channels)
    /\ channels' = Append(channels, c)
    /\ UNCHANGED <<projects, format, queue, phase, req, resp, calls, command, replies, threads>>

\* the bot leaves a channel
Part(c) ==
    /\ phase = "idle"
    /\ c \in Range(channels)
    /\ channels' = SelectSeq(channels, LAMBDA x : x # c)
    /\ UNCHANGED <<projects, format, queue, phase, req, resp, calls, command, replies, threads>>

\* number of subscriptions in the registry
NumProjects == Len(Subscriptions(<<ChanC, ChanD>>))

\* a check that lets every caller through
_check_capability_Open(admin) == TRUE

\* Gitlab._check_capability
_check_capability(admin) == admin

\* Gitlab._save_projects
_save_projects(d, channel) == [projects EXCEPT ![channel] = DumpProjects(d)]

\* irc.errorNoCapability('admin')
NoCapability == [how |-> "errorNoCapability", text |-> <<"admin">>]

\* irc.error(text)
Error(text) == [how |-> "error", text |-> text]

\* irc.reply(text)
Reply(text) == [how |-> "reply", text |-> text]

\* irc.replySuccess()
Success == [how |-> "replySuccess", text |-> <<>>]

MsgAnnounced == <<"This project is already announced to this channel.">>

MsgNotRegistered == <<"This project is not registered to this channel.">>

MsgNoProjects == <<"This channel has no registered projects.">>

\* what a command that saves nothing leaves behind
Replied(rs) == [save |-> FALSE, replies |-> rs]

\* an add that replaces the url of a slug already announced
AddLoaded_Overwrite(d, project_slug, project_url) ==
    [save |-> TRUE, projects |-> SetSlug(DelSlug(d, project_slug), project_slug, project_url),
     replies |-> <<Success>>]

\* add, lines 253-261, with the dict it loaded: what it saves and replies
AddLoaded(d, project_slug, project_url) ==
    IF HasSlug(d, project_slug) THEN Replied(<<Error(MsgAnnounced)>>)
    ELSE [save |-> TRUE, projects |-> SetSlug(d, project_slug, project_url),
          replies |-> <<Success>>]

\* remove, lines 276-284, with the dict it loaded
RemoveLoaded(d, project_slug) ==
    IF ~HasSlug(d, project_slug) THEN Replied(<<Error(MsgNotRegistered)>>)
    ELSE [save |-> TRUE, projects |-> DelSlug(d, project_slug), replies |-> <<Success>>]

\* list, lines 298-303, with the dict it loaded: "%s: %s" % (slug, url) for each
ListLoaded(d) ==
    IF Len(d) = 0 THEN Replied(<<Error(MsgNoProjects)>>)
    ELSE Replied([i \in 1..Len(d) |-> Reply(d[i][1] \o <<": ">> \o d[i][2])])

\* a command has run in one piece: what it saved and what it replied
CommandRan(cmd, channel, out) ==
    /\ projects' = IF out.save THEN _save_projects(out.projects, channel) ELSE projects
    /\ replies' = out.replies
    /\ command' = cmd
    /\ phase' = "replied"
    /\ UNCHANGED <<channels, format, queue, req, resp, calls, threads>>

\* gitlab project add
add(admin, channel, project_slug, project_url) ==
    /\ phase = "idle"
    /\ NumProjects < MaxProjects
    /\ CommandRan([name |-> "add", admin |-> admin, channel |-> channel,
                slug |-> project_slug, url |-> project_url],
               channel,
               IF ~_check_capability(admin) THEN Replied(<<NoCapability>>)
               ELSE AddLoaded(_load_projects(channel), project_slug, project_url))

\* gitlab project remove
remove(admin, channel, project_slug) ==
    /\ phase = "idle"
    /\ CommandRan([name |-> "remove", admin |-> admin, channel |-> channel,
                slug |-> project_slug],
               channel,
               IF ~_check_capability(admin) THEN Replied(<<NoCapability>>)
               ELSE RemoveLoaded(_load_projects(channel), project_slug))

\* gitlab project list
list(admin, channel) ==
    /\ phase = "idle"
    /\ CommandRan([name |-> "list", admin |-> admin, channel |-> channel],
               channel,
               IF ~_check_capability(admin) THEN Replied(<<NoCapability>>)
               ELSE ListLoaded(_load_projects(channel)))

\* the replies have been sent; the command is over
Done ==
    /\ phase = "replied"
    /\ phase' = "idle"
    /\ command' = NoCommand
    /\ replies' = <<>>
    /\ UNCHANGED <<channels, projects, format, queue, req, resp, calls, threads>>

\* number of channel values of the formats that are set
NumOverrides == Cardinality({x \in ChannelNames \X FormatIds : x[2] \in DOMAIN format[x[1]]})

\* config channel <c> plugins.Gitlab.format.<id> <t>
SetFormat(c, id, t) ==
    /\ phase = "idle"
    /\ id \notin DOMAIN format[c]
    /\ NumOverrides < MaxOverrides
    /\ format' = [format EXCEPT ![c] = Put(@, id, t)]
    /\ UNCHANGED <<channels, projects, queue, phase, req, resp, calls, command, replies, threads>>

\* the channel value is removed: the default applies again
ResetFormat(c, id) ==
    /\ phase = "idle"
    /\ id \in DOMAIN format[c]
    /\ format' = [format EXCEPT ![c] = Drop(@, id)]
    /\ UNCHANGED <<channels, projects, queue, phase, req, resp, calls, command, replies, threads>>

\* the http server calls doPost for a request
Post(r) ==
    /\ phase = "idle"
    /\ LET out == doPost(r.path, r.headers, r.form)
       IN /\ resp' = out.resp
          /\ calls' = out.calls
          /\ queue' = queue \o out.msgs
    /\ req' = r
    /\ phase' = "handled"
    /\ UNCHANGED <<channels, projects, format, command, replies, threads>>

\* the exchange is over: the connection is closed, and the irc driver has
\* taken the queued messages (irc.takeMsg until the queue is empty)
Close ==
    /\ phase = "handled"
    /\ phase' = "idle"
    /\ req' = NoRequest
    /\ resp' = <<>>
    /\ calls' = NoCalls
    /\ queue' = <<>>
    /\ UNCHANGED <<channels, projects, format, command, replies, threads>>

Next ==
    \/ \E c \in ChannelNames : Join(c)
    \/ \E c \in ChannelNames : Part(c)
    \/ \E a \in BOOLEAN, c \in ChannelNames, s \in Slugs, u \in Urls : add(a, c, s, u)
    \/ \E a \in BOOLEAN, c \in ChannelNames, s \in Slugs : remove(a, c, s)
    \/ \E a \in BOOLEAN, c \in ChannelNames : list(a, c)
    \/ Done
    \/ \E c \in ChannelNames, id \in FormatIds, t \in CustomFormats : SetFormat(c, id, t)
    \/ \E c \in ChannelNames, id \in FormatIds : ResetFormat(c, id)
    \/ \E r \in Requests : Post(r)
    \/ Close

Spec == Init /\ [][Next]_vars

\* ------------------------------------------------ commands in threads

\* The plugin is threaded: each command runs in a thread of its own, and a
\* thread can be switched out between any two of its calls. A command is two
\* steps here: up to the return of _load_projects, and from there to its reply.

\* the commands the threads run: add and remove on one channel
ThreadCommands ==
    { [name |-> "add", admin |-> a, channel |-> ChanC, slug |-> sl, url |-> UrlApp] :
        a \in BOOLEAN, sl \in Slugs }
    \cup
    { [name |-> "remove", admin |-> a, channel |-> ChanC, slug |-> sl] :
        a \in BOOLEAN, sl \in Slugs }

\* add, lines 250-252, and remove, lines 273-275: the capability check and
\* the load into the local variable `projects`
Start(t, cmd) ==
    /\ phase = "idle"
    /\ threads[t].pc = "none"
    /\ threads' = [threads EXCEPT ![t] =
           IF ~_check_capability(cmd.admin)
           THEN [pc |-> "done", cmd |-> cmd, replies |-> <<NoCapability>>]
           ELSE [pc |-> "loaded", cmd |-> cmd, projects |-> _load_projects(cmd.channel)]]
    /\ UNCHANGED <<channels, projects, format, queue, phase, req, resp, calls,
                   command, replies>>

\* add, lines 253-261, and remove, lines 276-284, on the local `projects`
Finish(t) ==
    /\ threads[t].pc = "loaded"
    /\ LET th == threads[t]
           out == IF th.cmd.name = "add"
                  THEN AddLoaded(th.projects, th.cmd.slug, th.cmd.url)
                  ELSE RemoveLoaded(th.projects, th.cmd.slug)
       IN /\ projects' = IF out.save THEN _save_projects(out.projects, th.cmd.channel)
                         ELSE projects
          /\ threads' = [threads EXCEPT ![t] =
                 [pc |-> "done", cmd |-> th.cmd, replies |-> out.replies]]
    /\ UNCHANGED <<channels, format, queue, phase, req, resp, calls, command, replies>>

\* every thread has replied and ended
Ended ==
    /\ \A t \in Threads : threads[t].pc = "done"
    /\ threads' = [t \in Threads |-> NoThread]
    /\ UNCHANGED <<channels, projects, format, queue, phase, req, resp, calls,
                   command, replies>>

NextThreaded ==
    \/ \E t \in Threads, cmd \in ThreadCommands : Start(t, cmd)
    \/ \E t \in Threads : Finish(t)
    \/ Ended

SpecThreaded == Init /\ [][NextThreaded]_vars

\* ------------------------------------------------- the requests, as claimed

\* doPost has returned; channels, projects and format are those it ran with
Handled == phase = "handled"

Payload == req.form.value

ValidJson == req.form.text = "json"

HasEvent == EventHeader \in DOMAIN req.headers

Event == req.headers[EventHeader]

Segments == Split(req.path)

\* the request got past the path check and the scope check
PassedChecks ==
    /\ Handled
    /\ Len(Segments) >= 3
    /\ Segments[2] = IrcNetwork
    /\ (<<"#">> \o Segments[3]) \in Range(channels)

\* the path is /<network>/<channel-name>
PathOfForm ==
    /\ Len(Segments) = 3
    /\ Segments[1] = <<>>
    /\ Segments[2] # <<>>
    /\ Segments[3] # <<>>

Answer(status, body) == [status |-> status, body |-> body]

\* the status line the caller reads is that of the first response written
AnsweredWith(status) == resp # <<>> /\ resp[1].status = status

\* the subscriptions of a channel, as a set of <<slug, url>>
StoreEntries(c) == IF projects[c] = <<>> THEN {} ELSE Range(projects[c][1])

\* the subscriptions of the joined channels, as a set of <<channel, slug, url>>
JoinedEntries ==
    UNION { {<<c, e[1], e[2]>> : e \in StoreEntries(c)} : c \in Range(channels) }

\* s is a contiguous part of t
PartOf(s, t) == \E i \in 1..Len(t) : \E j \in i..Len(t) : SubSeq(t, i, j) = s

\* the (channel, slug) pairs a hook was called for
HookPairs == {<<calls.hooks[i].channel, calls.hooks[i].slug>> : i \in DOMAIN calls.hooks}

\* the field the claims name for matching an event
ClaimedField(e) ==
    IF e \in {"Push Hook", "Tag Push Hook", "Note Hook"}
    THEN <<"repository", "homepage">>
    ELSE <<"object_attributes", "url">>

FiveEvents ==
    {"Push Hook", "Tag Push Hook", "Note Hook", "Issue Hook", "Merge Request Hook"}

\* a push body with every field the hook and the default formats read
WellFormedPush(p) ==
    /\ {"repository", "project_id", "user_name", "ref", "total_commits_count", "commits"}
         \subseteq DOMAIN p
    /\ "homepage" \in DOMAIN p.repository
    /\ \A i \in DOMAIN p.commits :
         /\ {"id", "message", "author"} \subseteq DOMAIN p.commits[i]
         /\ "name" \in DOMAIN p.commits[i].author

\* every field required for the event kind is present
WellFormed(e, p) ==
    IF e = "Push Hook" THEN WellFormedPush(p) ELSE HasPath(p, ClaimedField(e))

\* ------------------------------------------------------------------ claims

\* C1: a POST that passes the path and scope checks and whose body is not valid
\* JSON is answered with status 403 and queues no chat message.
C1_InvalidJson403 ==
    (PassedChecks /\ ~ValidJson) =>
        /\ AnsweredWith(403)
        /\ queue = <<>>
        /\ calls.hooks = <<>>

C1_Witness ==
    /\ PassedChecks
    /\ ~ValidJson
    /\ HasEvent /\ Event = "Push Hook"
    /\ AnsweredWith(403)
    /\ StoreEntries(ChanC) # {}

\* C2: a POST that passes the path and scope checks with a valid JSON body and no
\* X-Gitlab-Event header is answered with status 403, not 200.
C2_MissingHeader403 ==
    (PassedChecks /\ ValidJson /\ ~HasEvent) => AnsweredWith(403)

\* C3: for every supported event type and every JSON body without the field used
\* for matching, the request is answered 403, whatever the subscriptions and the
\* joined channels are.
C3_MissingField403 ==
    (PassedChecks /\ ValidJson /\ HasEvent /\ Event \in FiveEvents
        /\ ~HasPath(Payload, ClaimedField(Event))) => AnsweredWith(403)

\* C4: a POST that passes the checks with a valid JSON body and an event type that
\* is none of the five is a silent no-op: no message queued, no 403, answered 200 OK.
C4_UnsupportedIsOk ==
    (PassedChecks /\ ValidJson /\ HasEvent /\ Event \notin FiveEvents) =>
        /\ resp = <<Answer(200, <<"OK">>)>>
        /\ queue = <<>>
        /\ calls.hooks = <<>>

C4_Witness ==
    /\ PassedChecks /\ ValidJson /\ HasEvent
    /\ Event = "System Hook"
    /\ Payload = Push(UrlApp, 1)
    /\ \E c \in Range(channels) : \E e \in StoreEntries(c) : e[2] = UrlApp
    /\ resp = <<Answer(200, <<"OK">>)>>

\* C5: a POST that passes the checks with a valid JSON body, a supported event
\* type and every field required for its kind is answered 200 OK and never 403,
\* however many joined channels have a matching subscription.
C5_WellFormedIsOk ==
    (PassedChecks /\ ValidJson /\ HasEvent /\ Event \in FiveEvents
        /\ WellFormed(Event, Payload)) => resp = <<Answer(200, <<"OK">>)>>

\* C6, as claimed: every path that is not /<network>/<channel-name>, with fewer or
\* with more than two segments, is answered 403 with the explanatory message and
\* nothing else happens: no decode, no message queued, no 200.
C6_EveryBadPath403 ==
    (Handled /\ ~PathOfForm) =>
        /\ resp = <<Answer(403, MsgPath)>>
        /\ ~calls.decode
        /\ queue = <<>>

\* C6, amended: a path with fewer than two segments after the first '/' is
\* answered 403 with the explanatory message and nothing else happens; a path
\* with two segments or more is never answered with that message.
C6_ShortPath403 ==
    Handled =>
        /\ Len(Segments) < 3 =>
              /\ resp = <<Answer(403, MsgPath)>>
              /\ ~calls.decode /\ ~calls.handle_payload
              /\ queue = <<>>
        /\ Len(Segments) >= 3 => \A i \in DOMAIN resp : resp[i].body # MsgPath

C6_Witness ==
    /\ Handled
    /\ req.path = <<"/", "n">>
    /\ HasEvent /\ Event = "Push Hook" /\ ValidJson
    /\ ChanC \in Range(channels)
    /\ \E e \in StoreEntries(ChanC) : e[2] = Payload.repository.homepage
    /\ resp = <<Answer(403, MsgPath)>>

\* C7: a POST whose path names another network, or a channel the bot has not
\* joined, queues no chat message to any channel, whatever the headers, the body
\* and the subscriptions are.
C7_OutOfScopeSilent ==
    (Handled /\ Len(Segments) >= 3
        /\ (Segments[2] # IrcNetwork \/ (<<"#">> \o Segments[3]) \notin Range(channels)))
    => /\ queue = <<>>
       /\ calls.hooks = <<>>

C7_Witness ==
    /\ Handled
    /\ Len(Segments) >= 3
    /\ Segments[2] # IrcNetwork
    /\ HasEvent /\ Event = "Push Hook" /\ ValidJson
    /\ ChanC \in Range(channels)
    /\ format[ChanC] = <<>>
    /\ \E e \in StoreEntries(ChanC) : e[2] = Payload.repository.homepage
    /\ queue = <<>>

\* C8: for a Push, Tag Push or Note event that reaches routing, the hook is called
\* for a channel and a slug if and only if the channel is joined and the url of
\* that subscription equals repository.homepage, for every joined channel.
C8_HomepageRouting ==
    (PassedChecks /\ ValidJson /\ HasEvent
        /\ Event \in {"Push Hook", "Tag Push Hook", "Note Hook"}
        /\ HasPath(Payload, <<"repository", "homepage">>))
    => HookPairs =
          {<<x[1], x[2]>> : x \in {y \in JoinedEntries : y[3] = Payload.repository.homepage}}

\* C9: for an Issue or Merge Request event that reaches routing, the hook of the
\* event kind is called for a joined channel and a slug if and only if the url of
\* that subscription is a contiguous part of object_attributes.url;
\* repository.homepage plays no role.
C9_UrlRouting ==
    (PassedChecks /\ ValidJson /\ HasEvent
        /\ Event \in {"Issue Hook", "Merge Request Hook"}
        /\ HasPath(Payload, <<"object_attributes", "url">>))
    => /\ HookPairs =
            {<<x[1], x[2]>> :
                x \in {y \in JoinedEntries : PartOf(y[3], Payload.object_attributes.url)}}
       /\ Len(calls.hooks) = Cardinality(HookPairs)
       /\ \A i \in DOMAIN calls.hooks : calls.hooks[i].hook = Event

C9_Witness ==
    /\ PassedChecks /\ ValidJson /\ HasEvent
    /\ Event = "Issue Hook"
    /\ Payload = Put(Issue(UrlApp \o IssuePath), "repository", [homepage |-> UrlApp2])
    /\ StoreEntries(ChanC) = {<<<<"app">>, UrlApp>>, <<<<"web">>, UrlApp2>>}
    /\ Len(calls.hooks) = 1
    /\ calls.hooks[1].slug = <<"app">>

\* the text of the default push format for a slug
ExpectedPush(slug, p) ==
    <<"\\x02[">> \o slug \o <<"]\\x02 ">> \o p.user_name \o <<" pushed \\x02">>
    \o <<Digits[p.total_commits_count + 1]>> \o <<" commit(s)\\x02 to \\x02">> \o p.ref
    \o <<"\\x02:">>

\* the text of the default commit format for a slug
ExpectedCommit(slug, c) ==
    <<"\\x02[">> \o slug \o <<"]\\x02 ">>
    \o [i \in 1..(IF Len(c.id) < 10 THEN Len(c.id) ELSE 10) |-> c.id[i]]
    \o <<" \\x02">> \o c.message \o <<"\\x02 by ">> \o c.author.name

\* the summary and the commits of a push, in payload order
ExpectedTexts(slug, p) ==
    <<ExpectedPush(slug, p)>> \o [i \in 1..Len(p.commits) |-> ExpectedCommit(slug, p.commits[i])]

\* the texts queued to a channel that carry a slug as project name
TextsFor(c, slug) ==
    LET mine == SelectSeq(queue, LAMBDA m :
                    /\ m.channel = c
                    /\ Len(m.text) > Len(slug)
                    /\ SubSeq(m.text, 2, 1 + Len(slug)) = slug)
    IN [i \in 1..Len(mine) |-> mine[i].text]

\* C10: for a well-formed Push event with N commits, and each matching pair of a
\* joined channel and a slug (the channel's formats being the ones that render),
\* exactly 1 + N messages are queued to the channel for the pair: the push
\* summary, then one message per commit in payload order, each with short_id the
\* first 10 characters of the commit's id.
C10_PushMessages ==
    (PassedChecks /\ ValidJson /\ HasEvent /\ Event = "Push Hook" /\ WellFormedPush(Payload))
    => \A c \in Range(channels) : \A e \in StoreEntries(c) :
          (e[2] = Payload.repository.homepage /\ format[c] = <<>>)
              => TextsFor(c, e[1]) = ExpectedTexts(e[1], Payload)

\* the messages queued to a channel
QueuedTo(c) == SelectSeq(queue, LAMBDA m : m.channel = c)

\* the subscription's url matches the event, as the claims state it
Matches(e, url, p) ==
    IF e \in {"Push Hook", "Tag Push Hook", "Note Hook"}
    THEN url = p.repository.homepage
    ELSE PartOf(url, p.object_attributes.url)

\* a body of another kind than Push with the field compared and the fields
\* the format of its kind names
WellFormedOther(e, p) ==
    /\ HasPath(p, ClaimedField(e))
    /\ e = "Tag Push Hook" => {"user_name", "ref"} \subseteq DOMAIN p
    /\ e \in {"Issue Hook", "Merge Request Hook"} => HasPath(p, <<"user", "name">>)

\* C11: for a well-formed Tag Push, Issue, Note or Merge Request event, exactly
\* one message is queued to a joined channel for each of its matching
\* subscriptions.
C11_OneMessageEach ==
    (PassedChecks /\ ValidJson /\ HasEvent
        /\ Event \in FiveEvents \ {"Push Hook"} /\ WellFormedOther(Event, Payload))
    => \A c \in Range(channels) :
          Len(QueuedTo(c)) =
              Cardinality({e \in StoreEntries(c) : Matches(Event, e[2], Payload)})

\* the context of the push message of a pair
PushContext(slug, p) == Put(p, "project", [id |-> p.project_id, name |-> slug])

\* the context of the message of the i-th commit of a pair
CommitContext(slug, p, i) ==
    Put(Put(p.commits[i], "project", [id |-> p.project_id, name |-> slug]),
        "short_id", [j \in 1..(IF Len(p.commits[i].id) < 10 THEN Len(p.commits[i].id) ELSE 10)
                        |-> p.commits[i].id[j]])

\* the messages of a pair that render, with the formats of the channel: the
\* commits from the i-th on
RECURSIVE RenderableCommits(_, _, _, _)
RenderableCommits(c, slug, p, i) ==
    IF i > Len(p.commits) THEN <<>>
    ELSE (IF FormatOk(RegistryFormat("commit", c), CommitContext(slug, p, i))
          THEN <<Format(RegistryFormat("commit", c), CommitContext(slug, p, i))>>
          ELSE <<>>)
         \o RenderableCommits(c, slug, p, i + 1)

\* the messages of a pair that render: the summary, then the commits
Renderable(c, slug, p) ==
    (IF FormatOk(RegistryFormat("push", c), PushContext(slug, p))
     THEN <<Format(RegistryFormat("push", c), PushContext(slug, p))>>
     ELSE <<>>)
    \o RenderableCommits(c, slug, p, 1)

\* a push body with every field _push_hook itself reads
HookFields(p) ==
    /\ {"repository", "project_id", "commits"} \subseteq DOMAIN p
    /\ "homepage" \in DOMAIN p.repository
    /\ \A i \in DOMAIN p.commits : "id" \in DOMAIN p.commits[i]

\* C12: when a message of a Push event fails to render because its format names
\* a field the context lacks, only that message is skipped: for every matching
\* pair of a joined channel and a slug, every message of the pair that renders is
\* queued, in order.
C12_OnlyFailedSkipped ==
    (PassedChecks /\ ValidJson /\ HasEvent /\ Event = "Push Hook" /\ HookFields(Payload))
    => \A c \in Range(channels) : \A e \in StoreEntries(c) :
          e[2] = Payload.repository.homepage
              => TextsFor(c, e[1]) = Renderable(c, e[1], Payload)

\* ------------------------------------------------- the commands, as claimed

\* the subscriptions a registry value holds for a channel, as a set of <<slug, url>>
StoreOf(pr, c) == IF pr[c] = <<>> THEN {} ELSE Range(pr[c][1])

\* a command has just replied
Commanded == phase = "idle" /\ phase' = "replied"

\* the texts of the replies of a list, as a set
Listed(rs) == {rs[i].text : i \in {j \in DOMAIN rs : rs[j].how = "reply"}}

\* C13: for an admin caller, an add of a slug the channel has replies the
\* already-announced error and changes nothing (the old url is kept); a remove of
\* a slug the channel lacks replies the not-registered error and changes nothing;
\* otherwise add inserts and remove deletes that slug of that channel and no
\* other; list replies exactly the entries of the channel; a slug has at most one
\* url in a channel.
C13_StoreSequential ==
    [][ (Commanded /\ command'.admin) =>
          LET c == command'.channel
              before == StoreOf(projects, c)
              after == StoreOf(projects', c)
              held == \E e \in before : e[1] = command'.slug
          IN /\ \A o \in ChannelNames \ {c} : projects'[o] = projects[o]
             /\ \A e1 \in after : \A e2 \in after : e1[1] = e2[1] => e1 = e2
             /\ command'.name = "add" =>
                   IF held
                   THEN replies' = <<Error(MsgAnnounced)>> /\ projects' = projects
                   ELSE /\ replies' = <<Success>>
                        /\ after = before \cup {<<command'.slug, command'.url>>}
             /\ command'.name = "remove" =>
                   IF ~held
                   THEN replies' = <<Error(MsgNotRegistered)>> /\ projects' = projects
                   ELSE /\ replies' = <<Success>>
                        /\ after = {e \in before : e[1] # command'.slug}
             /\ command'.name = "list" =>
                   /\ projects' = projects
                   /\ Listed(replies') = {e[1] \o <<": ">> \o e[2] : e \in before}
                   /\ Len(replies') = IF before = {} THEN 1 ELSE Cardinality(before)
      ]_vars

C13_Witness ==
    /\ phase = "replied"
    /\ command.name = "add" /\ command.admin
    /\ replies = <<Error(MsgAnnounced)>>
    /\ \E e \in StoreOf(projects, command.channel) :
          e[1] = command.slug /\ e[2] # command.url

\* C15: add and remove by a caller without the admin capability change no
\* channel's subscriptions and reply the no-capability error; the subscriptions
\* change only by an add or a remove of a caller with the capability.
C15_NeedsCapability ==
    [][ /\ (Commanded /\ command'.name \in {"add", "remove"} /\ ~command'.admin) =>
              /\ projects' = projects
              /\ replies' = <<NoCapability>>
        /\ projects' # projects =>
              /\ Commanded
              /\ command'.name \in {"add", "remove"}
              /\ command'.admin
      ]_vars

C15_Witness ==
    /\ phase = "replied"
    /\ command.name = "remove" /\ ~command.admin
    /\ replies = <<NoCapability>>
    /\ \E e \in StoreOf(projects, command.channel) : e[1] = command.slug

\* a thread's command has replied success
Succeeded(t) == threads[t].pc = "done" /\ threads[t].replies = <<Success>>

\* C14: add and remove commands on the same channel that run at the same time
\* are serialized: when two of them on different slugs have both replied
\* success, both have taken effect (an added slug is in the channel's
\* subscriptions, a removed one is not), as after running them in some order.
C14_NoLostUpdate ==
    \A t1 \in Threads : \A t2 \in Threads \ {t1} :
        ( /\ Succeeded(t1) /\ Succeeded(t2)
          /\ threads[t1].cmd.channel = threads[t2].cmd.channel
          /\ threads[t1].cmd.slug # threads[t2].cmd.slug )
        => LET store == StoreOf(projects, threads[t1].cmd.channel)
               x == threads[t1].cmd
           IN IF x.name = "add" THEN <<x.slug, x.url>> \in store
              ELSE \A e \in store : e[1] # x.slug

\* ------------------------------------------------ the responses, as claimed

\* how the request ended: with the path error, silently out of scope, with the
\* JSON error, with the data error, or well
Outcome ==
    IF Len(Segments) < 3 THEN "path"
    ELSE IF ~PassedChecks THEN "scope"
    ELSE IF ~ValidJson THEN "json"
    ELSE IF handle_payload(req.headers, Payload).raised THEN "data"
    ELSE "ok"

\* what is written to the caller for each outcome
FixedResponses ==
    [ path |-> <<Answer(403, MsgPath)>>,
      scope |-> <<>>,
      json |-> <<Answer(403, MsgJson), Answer(403, MsgData), Answer(200, <<"OK">>)>>,
      data |-> <<Answer(403, MsgData), Answer(200, <<"OK">>)>>,
      ok |-> <<Answer(200, <<"OK">>)>> ]

\* C16: what is written to the caller depends on how the request ended and on
\* nothing else: requests that end the same way get the same responses, whatever
\* their payload and whatever the exception was, each body a fixed message.
C16_FixedTexts == Handled => resp = FixedResponses[Outcome]

C16_Witness ==
    /\ Handled /\ PassedChecks /\ ValidJson
    /\ HasEvent /\ Event = "Push Hook"
    /\ "project_id" \notin DOMAIN Payload
    /\ "repository" \in DOMAIN Payload
    /\ calls.hooks # <<>>
    /\ resp = <<Answer(403, MsgData), Answer(200, <<"OK">>)>>

\* C18: every request doPost handles gets at most one response.
C18_AtMostOneResponse == Len(resp) <= 1

\* C19: a request answered with a 403 has queued no chat message.
C19_RejectedQueuesNothing ==
    (Handled /\ \E i \in DOMAIN resp : resp[i].status = 403) => queue = <<>>

\* the number of messages of one pair of a push: the summary and the commits
PerPair == 1 + (IF "commits" \in DOMAIN Payload THEN Len(Payload.commits) ELSE 0)

\* the hook call the k-th queued message of a push comes from: a hook that
\* returns has queued all its messages, and none is called after one that raised
HookOf(k) == calls.hooks[((k - 1) \div PerPair) + 1]

\* the text shows the slug as the name of the project
Shows(text, slug) ==
    /\ Len(text) >= 2 + Len(slug)
    /\ text[1] = "\\x02["
    /\ SubSeq(text, 2, 1 + Len(slug)) = slug
    /\ text[2 + Len(slug)] = "]\\x02 "

\* C17: every message queued for a matching pair of a Push event goes to the
\* channel of the pair and shows the slug of the pair as project name, also when
\* several subscriptions match and the payload and its commits are written to
\* again for each pair.
C17_OwnSlug ==
    (PassedChecks /\ ValidJson /\ HasEvent /\ Event = "Push Hook")
    => \A k \in DOMAIN queue :
          /\ ((k - 1) \div PerPair) + 1 \in DOMAIN calls.hooks
          /\ queue[k].channel = HookOf(k).channel
          /\ Shows(queue[k].text, HookOf(k).slug)

C17_Witness ==
    /\ PassedChecks /\ ValidJson /\ HasEvent /\ Event = "Push Hook"
    /\ Len(calls.hooks) = 2
    /\ calls.hooks[1].slug # calls.hooks[2].slug
    /\ PerPair = 3
    /\ Len(queue) = 6
    /\ Shows(queue[6].text, calls.hooks[2].slug)

\* C20: a change of the subscriptions holds for every web hook that starts after
\* the command has replied; nothing is cached between requests. With the
\* subscriptions as the commands before the request left them: a well-formed
\* Push queues no message to a channel on account of a slug the channel does not
\* (or no longer) map to the homepage, and it queues its messages to every joined
\* channel for every slug the channel maps to the homepage (the channel's
\* formats being the ones that render).
C20_ChangesTakeEffect ==
    (PassedChecks /\ ValidJson /\ HasEvent /\ Event = "Push Hook" /\ WellFormedPush(Payload))
    => /\ \A k \in DOMAIN queue :
             \E e \in StoreOf(projects, queue[k].channel) :
                 /\ e[2] = Payload.repository.homepage
                 /\ Shows(queue[k].text, e[1])
       /\ \A c \in Range(channels) : \A e \in StoreOf(projects, c) :
             (e[2] = Payload.repository.homepage /\ format[c] = <<>>)
                 => \E k \in DOMAIN queue :
                        queue[k].channel = c /\ Shows(queue[k].text, e[1])

====
